---- MODULE Spec2Model ----
(***************************************************************************)
(* The rule-based response engine of LVK Chatbot (Lvk::Nlp::AimlEngine,    *)
(* src/src/chatbot/nlp-engine/aimlengine.cpp) as a state machine.          *)
(*                                                                         *)
(* A text is a sequence of words.  The engine's own code (rule storage,    *)
(* dirty flag, index rebuild, normalisation, two-phase target resolution,  *)
(* topic bookkeeping, match-identity codec) is translated from the source. *)
(* The pattern backend (class AIMLParser of third-party/ProgramQ) is not   *)
(* part of the sources at hand; its definitions follow the written         *)
(* specification (sections 4.2, 4.4, 4.5, 4.6) and are marked so.          *)
(***************************************************************************)
EXTENDS Integers, Sequences, FiniteSets, TLC

(***************************************************************************)
(* Bounds of the model.                                                    *)
(***************************************************************************)
MaxRules == 2
MaxCalls == 4

(***************************************************************************)
(* Program constants.                                                      *)
(***************************************************************************)
ANY_USER == ""
INPUT_NUMBER_BITS == 12
INPUT_NUMBER_MASK == 4095
INTERNAL_ERROR == <<"Internal Error!">>
NLP_PROP_PREFER_CUR_TOPIC == "prefer-current-topic"
NLP_PROP_OUTPUT_MODE == "output-mode"
MAX_REDIRECT_DEPTH == 2

STAR == "*"
AMP == "&"
AMP_ESCAPED == "&amp;"
NoText == <<>>

(***************************************************************************)
(* Generic helpers.                                                        *)
(***************************************************************************)
RECURSIVE BitOr(_, _)
BitOr(a, b) ==
    IF a = 0 THEN b
    ELSE IF b = 0 THEN a
    ELSE (IF (a % 2 = 1) \/ (b % 2 = 1) THEN 1 ELSE 0) + 2 * BitOr(a \div 2, b \div 2)

RECURSIVE Concat(_)
Concat(ss) == IF ss = <<>> THEN <<>> ELSE Head(ss) \o Concat(Tail(ss))

Range(s) == {s[i] : i \in 1..Len(s)}

Perms(n) == {p \in [1..n -> 1..n] : \A i, j \in 1..n : p[i] = p[j] => i = j}

(***************************************************************************)
(* Match identity codec.  A long is a word of 64 bits, written as six      *)
(* digits of INPUT_NUMBER_BITS bits each (0 to INPUT_NUMBER_MASK), the     *)
(* least significant first; the sixth digit holds bits 60 to 63.  Rule ids *)
(* are 64-bit words too.                                                   *)
(***************************************************************************)
\* (long)n of an int n >= 0
Long(n) ==
    <<n % (INPUT_NUMBER_MASK + 1),
      (n \div (INPUT_NUMBER_MASK + 1)) % (INPUT_NUMBER_MASK + 1),
      (n \div (INPUT_NUMBER_MASK + 1)) \div (INPUT_NUMBER_MASK + 1), 0, 0, 0>>

\* the number a word below 2^31 stands for
Number(x) ==
    x[1] + (INPUT_NUMBER_MASK + 1) * (x[2] + (INPUT_NUMBER_MASK + 1) * x[3])

\* x << INPUT_NUMBER_BITS: the bits shifted out of the word are lost
ShiftLeft(x) == <<0, x[1], x[2], x[3], x[4], x[5] % 16>>

\* x >> INPUT_NUMBER_BITS of a signed long: the sign bit fills the top
ShiftRight(x) ==
    IF x[6] >= 8
    THEN <<x[2], x[3], x[4], x[5], x[6] + 4080, 15>>
    ELSE <<x[2], x[3], x[4], x[5], x[6], 0>>

\* a | b
Or(a, b) ==
    <<BitOr(a[1], b[1]), BitOr(a[2], b[2]), BitOr(a[3], b[3]),
      BitOr(a[4], b[4]), BitOr(a[5], b[5]), BitOr(a[6], b[6])>>

\* getCategoryId without the shift of the rule id
getCategoryId_unshifted(ruleId, inputNumber) ==
    Or(ruleId, Long(inputNumber))

\* ((long)ruleId << INPUT_NUMBER_BITS) | (long)inputNumber
getCategoryId(ruleId, inputNumber) ==
    Or(ShiftLeft(ruleId), Long(inputNumber))

\* categoryId >> INPUT_NUMBER_BITS
getRuleId(categoryId) == ShiftRight(categoryId)

\* categoryId & INPUT_NUMBER_MASK
getInputNumber(categoryId) == categoryId[1] % (INPUT_NUMBER_MASK + 1)

\* convert(): the match list becomes the single pair decoded from the LAST id
convert(categoriesId) ==
    IF Len(categoriesId) > 0
    THEN LET catId == categoriesId[Len(categoriesId)]
         IN  << <<Number(getRuleId(catId)), getInputNumber(catId)>> >>
    ELSE <<>>

(***************************************************************************)
(* Normalisation collaborators.  The null implementations are the          *)
(* identity; the substitutable ones reduce the word form "A" to "a".       *)
(***************************************************************************)
SanitizerKinds == {"null", "default"}
LemmatizerKinds == {"null", "mock"}

sanitize(kind, text) ==
    IF kind = "null" THEN text
    ELSE [i \in 1..Len(text) |-> IF text[i] = "A" THEN "a" ELSE text[i]]

lemmatize(kind, text) ==
    IF kind = "null" THEN text
    ELSE [i \in 1..Len(text) |-> IF text[i] = "A" THEN "a" ELSE text[i]]

\* AimlEngine::normalize(QString&)
normalize(pre, lem, post, text) == sanitize(post, lemmatize(lem, sanitize(pre, text)))

\* QString::remove('&')
removeAmp(text) == SelectSeq(text, LAMBDA w : w # AMP)

\* AimlEngine::escape
escape(text) == [i \in 1..Len(text) |-> IF text[i] = AMP THEN AMP_ESCAPED ELSE text[i]]

(***************************************************************************)
(* Rules.  An output is either plain text or a redirect whose text is      *)
(* re-submitted as input (AIML <srai>).                                    *)
(***************************************************************************)
Rule(id, input, output, target, topic) ==
    [id |-> id, input |-> input, output |-> output, target |-> target, topic |-> topic]

Text(words) == [srai |-> FALSE, text |-> words]
Srai(words) == [srai |-> TRUE, text |-> words]

\* a pattern token list contains the wildcard
hasWildcard(pattern) == \E i \in 1..Len(pattern) : pattern[i] = STAR

(***************************************************************************)
(* Pattern backend (AIMLParser).                                           *)
(***************************************************************************)
\* XML decoding of the pattern text handed over by buildAiml
unescape(text) == [i \in 1..Len(text) |-> IF text[i] = AMP_ESCAPED THEN AMP ELSE text[i]]

\* whole-input match; the wildcard covers one or more words
RECURSIVE Matches(_, _)
Matches(p, x) ==
    IF p = <<>> THEN x = <<>>
    ELSE IF x = <<>> THEN FALSE
    ELSE IF Head(p) = STAR
         THEN Matches(Tail(p), Tail(x)) \/ Matches(p, Tail(x))
         ELSE Head(p) = Head(x) /\ Matches(Tail(p), Tail(x))

\* categories of the index that are candidates for input x under a topic
Candidates(cats, topic, x) ==
    {i \in 1..Len(cats) : /\ Matches(unescape(cats[i].pattern), x)
                          /\ cats[i].name \in {"", topic}}

\* priority of candidate i: current topic first, then wildcard-free, then
\* authoring order
TopicRank(cats, topic, i) == IF topic # "" /\ cats[i].name = topic THEN 0 ELSE 1

\* a resolver blind to wildcards
WildRank_none(cats, i) == 0

WildRank(cats, i) == IF hasWildcard(unescape(cats[i].pattern)) THEN 1 ELSE 0

\* a resolver whose last registered category wins a tie
Better_lastWins(cats, topic, i, j) ==
    \/ TopicRank(cats, topic, i) < TopicRank(cats, topic, j)
    \/ /\ TopicRank(cats, topic, i) = TopicRank(cats, topic, j)
       /\ \/ WildRank(cats, i) < WildRank(cats, j)
          \/ WildRank(cats, i) = WildRank(cats, j) /\ i > j

Better(cats, topic, i, j) ==
    \/ TopicRank(cats, topic, i) < TopicRank(cats, topic, j)
    \/ /\ TopicRank(cats, topic, i) = TopicRank(cats, topic, j)
       /\ \/ WildRank(cats, i) < WildRank(cats, j)
          \/ WildRank(cats, i) = WildRank(cats, j) /\ i < j

\* the candidate that beats every other one
Best(cats, topic, cand) ==
    IF cand = {} THEN 0
    ELSE CHOOSE i \in cand : \A j \in cand \ {i} : Better(cats, topic, i, j)

\* index of the surviving category, 0 when nothing matches
BestCategory(cats, topic, x) == Best(cats, topic, Candidates(cats, topic, x))

\* restriction of a permutation of 1..m to 1..n, kept in its order
Restrict(perm, n) == SelectSeq(perm, LAMBDA k : k <= n)

RotateLeft(s) == IF Len(s) <= 1 THEN s ELSE Tail(s) \o <<Head(s)>>

\* random-without-immediate-repeat draw for rule ruleId with n outputs:
\* a shuffle and a cursor per rule, reshuffled on exhaustion so that the new
\* first element differs from the previous last one
NextRandom(rot, ruleId, n, oracle) ==
    LET fresh == Restrict(oracle, n)
    IN  IF ruleId \notin DOMAIN rot
        THEN [idx |-> fresh[1],
              rot |-> [r \in DOMAIN rot \cup {ruleId} |->
                         IF r = ruleId THEN [perm |-> fresh, pos |-> 2] ELSE rot[r]]]
        ELSE LET cur == rot[ruleId]
             IN  IF cur.pos <= n
                 THEN [idx |-> cur.perm[cur.pos],
                       rot |-> [rot EXCEPT ![ruleId].pos = cur.pos + 1]]
                 ELSE LET next == IF n > 1 /\ fresh[1] = cur.perm[n]
                                  THEN RotateLeft(fresh) ELSE fresh
                      IN  [idx |-> next[1],
                           rot |-> [rot EXCEPT ![ruleId] = [perm |-> next, pos |-> 2]]]

\* AIMLParser::getResponse: select the category, evaluate its template
\* (set the topic, draw an output), follow redirects up to the guard depth.
\* The ids of the categories used are collected innermost first, so the
\* category matched by the original input is the last one.
RECURSIVE Resolve(_, _, _, _, _, _)

\* the result of a redirect, seen from the category that redirected
Redirected(cat, r) ==
    [topic |-> r.topic, rot |-> r.rot, response |-> r.response,
     ids |-> r.ids \o <<cat.id>>]

\* the output drawn is plain text, or a redirect that is followed unless the
\* guard depth is reached
Evaluate(cats, cat, pick, depth, oracle) ==
    IF ~cat.li[pick.idx].srai
    THEN [topic |-> cat.topic, rot |-> pick.rot,
          response |-> cat.li[pick.idx].text, ids |-> <<cat.id>>]
    ELSE IF depth >= MAX_REDIRECT_DEPTH
    THEN [topic |-> cat.topic, rot |-> pick.rot,
          response |-> INTERNAL_ERROR, ids |-> <<cat.id>>]
    ELSE Redirected(cat, Resolve(cats, cat.topic, pick.rot, cat.li[pick.idx].text,
                                 depth + 1, oracle))

\* the template of the selected category: the topic is set, an output drawn
Template(cats, cat, rot, depth, oracle) ==
    IF cat.li = <<>>
    THEN [topic |-> cat.topic, rot |-> rot, response |-> NoText, ids |-> <<cat.id>>]
    ELSE Evaluate(cats, cat,
                  IF cat.random
                  THEN NextRandom(rot, Number(getRuleId(cat.id)), Len(cat.li), oracle)
                  ELSE [idx |-> 1, rot |-> rot],
                  depth, oracle)

\* c is the index of the selected category, 0 when there is none
Selected(cats, c, topic, rot, depth, oracle) ==
    IF c = 0
    THEN [topic |-> topic, rot |-> rot, response |-> INTERNAL_ERROR, ids |-> <<>>]
    ELSE Template(cats, cats[c], rot, depth, oracle)

Resolve(cats, topic, rot, x, depth, oracle) ==
    Selected(cats, BestCategory(cats, topic, x), topic, rot, depth, oracle)

\* new AIMLParser(aiml, log)
NewParser(cats) == [cats |-> cats, topic |-> "", rot |-> <<>>]

\* a parser that keeps the topic its last query left
ParserSetTopic_keep(parser, topic) == parser

\* AIMLParser::setTopic
ParserSetTopic(parser, topic) == [parser EXCEPT !.topic = topic]

\* the parser and what it hands back once r is resolved, with the topic the
\* input was resolved under
Responded(parser, r) ==
    [parser |-> [parser EXCEPT !.topic = r.topic, !.rot = r.rot],
     response |-> r.response, ids |-> r.ids, under |-> parser.topic]

\* AIMLParser::getResponse(input, categoriesId)
ParserGetResponse(parser, x, oracle) ==
    CHOOSE a \in { Responded(parser, v) :
                     v \in {Resolve(parser.cats, parser.topic, parser.rot, x, 0, oracle)} } :
        TRUE

(***************************************************************************)
(* Index construction (AimlEngine::buildAiml, refreshAiml).                *)
(***************************************************************************)
\* AimlEngine::buildAimlRandOutput
buildAimlRandOutput(output) ==
    IF Len(output) = 1 THEN [random |-> FALSE, li |-> output]
    ELSE IF Len(output) > 1 THEN [random |-> TRUE, li |-> output]
    ELSE [random |-> FALSE, li |-> <<>>]

escapeOutput(o) == [o EXCEPT !.text = escape(o.text)]

\* buildAiml(rule) that never wraps a category in a topic
buildAimlRule_noTopics(rule, setTopics, pre, lem, post) ==
    [i \in 1..Len(rule.input) |->
        [id      |-> getCategoryId(Long(rule.id), i - 1),
         pattern |-> escape(normalize(pre, lem, post, rule.input[i])),
         topic   |-> rule.topic,
         random  |-> Len(rule.output) > 1,
         li      |-> [j \in 1..Len(rule.output) |-> escapeOutput(rule.output[j])],
         name    |-> ""]]

\* buildAiml(rule) without the copy of the category under the default topic
buildAimlRule_noDefaultTopic(rule, setTopics, pre, lem, post) ==
    [i \in 1..Len(rule.input) |->
        [id      |-> getCategoryId(Long(rule.id), i - 1),
         pattern |-> escape(normalize(pre, lem, post, rule.input[i])),
         topic   |-> rule.topic,
         random  |-> Len(rule.output) > 1,
         li      |-> [j \in 1..Len(rule.output) |-> escapeOutput(rule.output[j])],
         name    |-> IF setTopics THEN rule.topic ELSE ""]]

\* buildAiml(rule) that wraps every category in its topic, preferred or not
buildAimlRule_alwaysTopics(rule, setTopics, pre, lem, post) ==
    Concat([i \in 1..Len(rule.input) |->
        LET tmpl == buildAimlRandOutput(rule.output)
            cat  == [id      |-> getCategoryId(Long(rule.id), i - 1),
                     pattern |-> escape(normalize(pre, lem, post, rule.input[i])),
                     topic   |-> rule.topic,
                     random  |-> tmpl.random,
                     li      |-> [j \in 1..Len(tmpl.li) |-> escapeOutput(tmpl.li[j])],
                     name    |-> ""]
        IN  << [cat EXCEPT !.name = rule.topic], cat >>])

\* AimlEngine::buildAiml(QString&, const Rule&)
buildAimlRule(rule, setTopics, pre, lem, post) ==
    Concat([i \in 1..Len(rule.input) |->
        LET tmpl == buildAimlRandOutput(rule.output)
            cat  == [id      |-> getCategoryId(Long(rule.id), i - 1),
                     pattern |-> escape(normalize(pre, lem, post, rule.input[i])),
                     topic   |-> rule.topic,
                     random  |-> tmpl.random,
                     li      |-> [j \in 1..Len(tmpl.li) |-> escapeOutput(tmpl.li[j])],
                     name    |-> ""]
        IN  IF setTopics
            THEN << [cat EXCEPT !.name = rule.topic], cat >>
            ELSE << cat >>])

\* buildAiml(target) that adds the unscoped rules to every partition
buildAimlTarget_unscopedEverywhere(rules, target, setTopics, pre, lem, post) ==
    Concat([i \in 1..Len(rules) |->
        IF rules[i].target = {} \/ target \in rules[i].target
        THEN buildAimlRule(rules[i], setTopics, pre, lem, post)
        ELSE <<>>])

\* buildAiml(target) that adds the scoped rules to the any-user partition
buildAimlTarget_anyHoldsAll(rules, target, setTopics, pre, lem, post) ==
    Concat([i \in 1..Len(rules) |->
        IF target = ANY_USER \/ target \in rules[i].target
        THEN buildAimlRule(rules[i], setTopics, pre, lem, post)
        ELSE <<>>])

\* AimlEngine::buildAiml(QString&, const QString&)
buildAimlTarget(rules, target, setTopics, pre, lem, post) ==
    Concat([i \in 1..Len(rules) |->
        IF \/ target = ANY_USER /\ rules[i].target = {}
           \/ target \in rules[i].target
        THEN buildAimlRule(rules[i], setTopics, pre, lem, post)
        ELSE <<>>])

\* AimlEngine::refreshAiml
refreshAiml(rules, setTopics, pre, lem, post) ==
    LET names == {ANY_USER} \cup UNION {rules[i].target : i \in 1..Len(rules)}
    IN  [t \in names |-> NewParser(buildAimlTarget(rules, t, setTopics, pre, lem, post))]

(***************************************************************************)
(* Inputs of the operations: partners, user inputs and rule sets.          *)
(***************************************************************************)
Users == {"u1", "u2"}
CallTargets == {ANY_USER} \cup Users

UserInputs == { <<"a">>, <<"b">>, <<"A", AMP>> }

O0 == Text(<<"O0">>)
O1 == Text(<<"O1">>)
O2 == Text(<<"O2">>)

\* The rules a rule set is composed of; ids are unique.  Each family of rule
\* sets is explored on its own: priorities and targets, output rotation,
\* redirects.
MatchRules ==
    { Rule(7, << <<"a">>, <<STAR>>, <<"A">> >>, <<Text(<<"P">>)>>, {}, ""),
      Rule(2, << <<STAR>> >>, <<Text(<<"W">>)>>, {"u1"}, "t1"),
      Rule(4, << <<"a">>, <<"b">> >>, <<Text(<<"T">>)>>, {}, "t2"),
      Rule(1, << <<"a">> >>, <<Text(<<"S">>)>>, {"u1"}, "") }

RotateRules ==
    { Rule(7, << <<"a">>, <<STAR>> >>, <<O0, O1, O2>>, {}, ""),
      Rule(9, << <<"a">> >>, <<O0, O1>>, {"u1", "u2"}, ""),
      Rule(3, << <<"b">> >>, <<O0, O1, O2>>, {"u1", "u2"}, "") }

RedirectRules ==
    { Rule(6, << <<"a">> >>, <<Srai(<<"b">>)>>, {}, ""),
      Rule(8, << <<"b">> >>, <<Srai(<<"a">>)>>, {}, "t2"),
      Rule(5, << <<"a">> >>, <<Srai(<<"a">>)>>, {"u1"}, "t2"),
      Rule(7, << <<"a">> >>, <<Text(<<"P">>)>>, {}, ""),
      Rule(1, << <<"b">> >>, <<Text(<<"B">>)>>, {"u1"}, "t1"),
      Rule(3, << <<"a">> >>, <<>>, {}, "") }

MaxOutputs == 3

\* rule lists of at most MaxRules rules with pairwise different ids
RuleLists(universe) ==
    UNION { { s \in [1..n -> universe] :
                \A i, j \in 1..n : s[i].id = s[j].id => i = j }
            : n \in 0..MaxRules }

HasRule(rules, id) == \E i \in 1..Len(rules) : rules[i].id = id
RuleById(rules, id) == rules[CHOOSE i \in 1..Len(rules) : rules[i].id = id]

(***************************************************************************)
(* State of the engine and of its caller.                                  *)
(***************************************************************************)
VARIABLES
    m_rules,          \* RuleList
    m_dirty,          \* index must be rebuilt before the next query
    m_setTopics,      \* prefer-current-topic
    m_preSanitizer,
    m_lemmatizer,
    m_postSanitizer,
    m_parsers,        \* ParsersMap: partition name -> parser
    m_topics,         \* partner -> topic
    matches,          \* the caller's MatchList, reused from call to call
    ret,              \* the last completed call and what it returned
    requestedMode,    \* the output mode last asked for through setProperty
    hist,             \* matching calls since the rule set was installed
    calls,            \* number of operations performed so far
    holders,          \* the threads that hold m_mutex
    pc,               \* thread -> where it stands in its call
    job               \* thread -> the call it is in and its locals

vars == << m_rules, m_dirty, m_setTopics, m_preSanitizer, m_lemmatizer,
           m_postSanitizer, m_parsers, m_topics, matches, ret, requestedMode,
           hist, calls, holders, pc, job >>

Threads == {"T1", "T2"}

NoQuery == [parsers |-> <<>>, topics |-> <<>>, matches |-> <<>>, responses |-> <<>>,
            queried |-> <<>>, under |-> <<>>, steps |-> 0]

\* the fields of the engine that a query reads
NoEngine == [rules |-> <<>>, dirty |-> FALSE, setTopics |-> FALSE, pre |-> "null",
             lem |-> "null", post |-> "null", parsers |-> <<>>, topics |-> <<>>]

NoJob == [op |-> "none", rules |-> <<>>, input |-> NoText, target |-> ANY_USER,
          value |-> "", oracle |-> <<>>, q |-> NoQuery, snap |-> NoEngine,
          rebuilds |-> 0]

NoCall == [op |-> "none", input |-> NoText, target |-> ANY_USER, output |-> NoText,
           responses |-> <<>>, queried |-> <<>>, under |-> <<>>, rebuilt |-> FALSE,
           name |-> "", value |-> "", topicBefore |-> "", rules |-> <<>>,
           matchesBefore |-> <<>>, steps |-> 0]

\* AimlEngine::AimlEngine
Init ==
    /\ m_rules = <<>>
    /\ m_dirty = FALSE
    /\ m_setTopics = FALSE
    /\ m_preSanitizer = "null"
    /\ m_lemmatizer = "null"
    /\ m_postSanitizer = "null"
    /\ m_parsers = <<>>
    /\ m_topics = <<>>
    /\ matches = <<>>
    /\ ret = NoCall
    /\ requestedMode = ""
    /\ hist = <<>>
    /\ calls = 0
    /\ holders = {}
    /\ pc = [t \in Threads |-> "idle"]
    /\ job = [t \in Threads |-> NoJob]


(***************************************************************************)
(* Query path.                                                             *)
(***************************************************************************)
TopicOf(topics, target) == IF target \in DOMAIN topics THEN topics[target] ELSE ""

SetTopicOf(topics, target, topic) ==
    [t \in DOMAIN topics \cup {target} |-> IF t = target THEN topic ELSE topics[t]]

\* getAllResponsesWithParser once the parser has answered: the partner's topic
\* is written back; an empty response drops the ids; a response is kept
\* unless it is the error text or comes without ids
Collected(q, target, parserName, r, categoriesId) ==
    IF r.response # INTERNAL_ERROR /\ Len(categoriesId) > 0
    THEN [parsers   |-> [q.parsers EXCEPT ![parserName] = r.parser],
          topics    |-> SetTopicOf(q.topics, target, r.parser.topic),
          matches   |-> convert(categoriesId),
          responses |-> <<r.response>>,
          queried   |-> Append(q.queried, parserName),
          under     |-> Append(q.under, r.under),
          steps     |-> q.steps + Len(r.ids)]
    ELSE [parsers   |-> [q.parsers EXCEPT ![parserName] = r.parser],
          topics    |-> SetTopicOf(q.topics, target, r.parser.topic),
          matches   |-> q.matches,
          responses |-> <<>>,
          queried   |-> Append(q.queried, parserName),
          under     |-> Append(q.under, r.under),
          steps     |-> q.steps + Len(r.ids)]

\* the answer r of the parser is taken once and then collected
Answer(q, target, parserName, r) ==
    CHOOSE a \in { Collected(q, target, parserName, v,
                             IF v.response = NoText THEN <<>> ELSE v.ids) : v \in {r} } :
        TRUE

\* AimlEngine::getAllResponsesWithParser; q carries the parsers, the topics,
\* the match list being filled, the partitions queried so far, the topic each
\* of them was queried under and the number of categories the backend evaluated
getAllResponsesWithParser(q, normInput, target, parserName, oracle) ==
    IF parserName \notin DOMAIN q.parsers
    THEN [q EXCEPT !.responses = <<>>]
    ELSE Answer(q, target, parserName,
                ParserGetResponse(ParserSetTopic(q.parsers[parserName],
                                                 TopicOf(q.topics, target)),
                                  normInput, oracle))

\* _getAllResponses falling back to the partition of a partner
Fallback_toPartner(q1, normInput, target, oracle) ==
    IF q1.responses = <<>> /\ target # ANY_USER
    THEN getAllResponsesWithParser(q1, normInput, target, "u1", oracle)
    ELSE q1

\* _getAllResponses without the second query
Fallback_none(q1, normInput, target, oracle) ==
    q1

\* no response found with the given target: fall back to the rules for any user
Fallback(q1, normInput, target, oracle) ==
    IF q1.responses = <<>> /\ target # ANY_USER
    THEN getAllResponsesWithParser(q1, normInput, target, ANY_USER, oracle)
    ELSE q1

\* the two queries of _getAllResponses on the index parsers0
Query(parsers0, normInput, target, callerMatches, oracle) ==
    Fallback(getAllResponsesWithParser(
                 [parsers |-> parsers0, topics |-> m_topics, matches |-> callerMatches,
                  responses |-> <<>>, queried |-> <<>>, under |-> <<>>, steps |-> 0],
                 normInput, target, target, oracle),
             normInput, target, oracle)

\* _getAllResponses that queries the index as it is, dirty or not
GetAllResponses_stale(input, target, callerMatches, oracle) ==
    Query(m_parsers,
          removeAmp(normalize(m_preSanitizer, m_lemmatizer, m_postSanitizer, input)),
          target, callerMatches, oracle)

\* AimlEngine::_getAllResponses, after the lock is taken
GetAllResponses(input, target, callerMatches, oracle) ==
    Query(IF m_dirty
          THEN refreshAiml(m_rules, m_setTopics, m_preSanitizer, m_lemmatizer,
                           m_postSanitizer)
          ELSE m_parsers,
          removeAmp(normalize(m_preSanitizer, m_lemmatizer, m_postSanitizer, input)),
          target, callerMatches, oracle)

\* A call draws a fresh shuffle from its oracle only when a <random> template
\* starts or exhausts a shuffle; otherwise every oracle gives the same result.
Identity == [i \in 1..MaxOutputs |-> i]

Drew(q, before) ==
    \E n \in DOMAIN q.parsers : \E r \in DOMAIN q.parsers[n].rot :
        /\ q.parsers[n].rot[r].pos = 2
        /\ \/ n \notin DOMAIN before
           \/ r \notin DOMAIN before[n].rot
           \/ before[n].rot[r] # q.parsers[n].rot[r]

DrawsShuffle(input, target) ==
    Drew(GetAllResponses(input, target, <<>>, Identity),
         IF m_dirty THEN <<>> ELSE m_parsers)

Oracles(input, target) ==
    IF DrawsShuffle(input, target) THEN Perms(MaxOutputs) ELSE {Identity}

(***************************************************************************)
(* Operations.  Every operation is one call on the engine; the number of   *)
(* calls explored is bounded.                                              *)
(***************************************************************************)
Called ==
    /\ calls < MaxCalls
    /\ calls' = calls + 1
    /\ UNCHANGED << holders, pc, job >>

\* AimlEngine::rules
rules ==
    /\ Called
    /\ ret' = [NoCall EXCEPT !.op = "rules", !.rules = m_rules]
    /\ UNCHANGED << m_rules, m_dirty, m_setTopics, m_preSanitizer, m_lemmatizer,
                    m_postSanitizer, m_parsers, m_topics, matches, requestedMode, hist >>

\* setRules that forgets the topics of the partners
setRules_dropTopics(newRules) ==
    /\ Called
    /\ m_rules' = newRules
    /\ m_dirty' = TRUE
    /\ m_topics' = <<>>
    /\ ret' = [NoCall EXCEPT !.op = "setRules"]
    /\ hist' = <<>>
    /\ UNCHANGED << m_setTopics, m_preSanitizer, m_lemmatizer, m_postSanitizer,
                    m_parsers, matches, requestedMode >>

\* AimlEngine::setRules
setRules(newRules) ==
    /\ Called
    /\ m_rules' = newRules
    /\ m_dirty' = TRUE
    /\ ret' = [NoCall EXCEPT !.op = "setRules"]
    /\ hist' = <<>>
    /\ UNCHANGED << m_setTopics, m_preSanitizer, m_lemmatizer, m_postSanitizer,
                    m_parsers, m_topics, matches, requestedMode >>

\* the matching calls, since the rule set was installed, of rules that have
\* several outputs: rule, output, partner and the output mode asked for
Hist(q, target) ==
    IF /\ q.responses # <<>>
       /\ HasRule(m_rules, q.matches[1][1])
       /\ Len(RuleById(m_rules, q.matches[1][1]).output) > 1
    THEN Append(hist, [rule |-> q.matches[1][1], output |-> q.responses[1],
                       target |-> target, mode |-> requestedMode])
    ELSE hist

\* getResponse without its initial matches.clear()
getResponseReturn_noClear(callerMatches, allMatches, responses) ==
    IF allMatches # <<>>
    THEN [matches |-> Append(callerMatches, allMatches[1]), output |-> responses[1]]
    ELSE [matches |-> callerMatches, output |-> NoText]

\* what AimlEngine::getResponse hands back: the caller's list is cleared,
\* then receives the first match, and the first response is returned
getResponseReturn(callerMatches, allMatches, responses) ==
    IF allMatches # <<>>
    THEN [matches |-> << allMatches[1] >>, output |-> responses[1]]
    ELSE [matches |-> <<>>, output |-> NoText]

\* the state getResponse leaves: q is what the query path did, r what the
\* caller gets
getResponseDone(input, target, q, r) ==
    /\ Called
    /\ m_parsers' = q.parsers
    /\ m_topics' = q.topics
    /\ m_dirty' = FALSE
    /\ matches' = r.matches
    /\ ret' = [NoCall EXCEPT !.op = "getResponse", !.input = input,
               !.target = target, !.output = r.output,
               !.responses = q.responses, !.queried = q.queried,
               !.under = q.under,
               !.rebuilt = m_dirty, !.topicBefore = TopicOf(m_topics, target),
               !.matchesBefore = matches, !.steps = q.steps]
    /\ hist' = Hist(q, target)
    /\ UNCHANGED << m_rules, m_setTopics, m_preSanitizer, m_lemmatizer,
                    m_postSanitizer, requestedMode >>

getResponseWith(input, target, q) ==
    getResponseDone(input, target, q, getResponseReturn(matches, q.matches, q.responses))

\* AimlEngine::getResponse(input, target, matches); the two-argument form is
\* the call with target ANY_USER
getResponse(input, target, oracle) ==
    getResponseWith(input, target, GetAllResponses(input, target, <<>>, oracle))

\* the state getAllResponses leaves
getAllResponsesDone(input, target, q) ==
    /\ Called
    /\ m_parsers' = q.parsers
    /\ m_topics' = q.topics
    /\ m_dirty' = FALSE
    /\ matches' = q.matches
    /\ ret' = [NoCall EXCEPT !.op = "getAllResponses", !.input = input,
               !.target = target,
               !.output = IF q.responses # <<>> THEN q.responses[1] ELSE NoText,
               !.responses = q.responses, !.queried = q.queried,
               !.under = q.under,
               !.rebuilt = m_dirty, !.topicBefore = TopicOf(m_topics, target),
               !.matchesBefore = matches, !.steps = q.steps]
    /\ hist' = Hist(q, target)
    /\ UNCHANGED << m_rules, m_setTopics, m_preSanitizer, m_lemmatizer,
                    m_postSanitizer, requestedMode >>

\* AimlEngine::getAllResponses(input, target, matches): the caller's list is
\* handed to the query path as it is
getAllResponses(input, target, oracle) ==
    getAllResponsesDone(input, target, GetAllResponses(input, target, matches, oracle))

\* AimlEngine::setPreSanitizer
setPreSanitizer(kind) ==
    /\ Called
    /\ m_preSanitizer' = kind
    /\ m_dirty' = TRUE
    /\ ret' = [NoCall EXCEPT !.op = "setPreSanitizer"]
    /\ UNCHANGED << m_rules, m_setTopics, m_lemmatizer, m_postSanitizer,
                    m_parsers, m_topics, matches, requestedMode, hist >>

\* setLemmatizer that leaves the index as valid as it was
setLemmatizer_clean(kind) ==
    /\ Called
    /\ m_lemmatizer' = kind
    /\ ret' = [NoCall EXCEPT !.op = "setLemmatizer"]
    /\ UNCHANGED << m_rules, m_dirty, m_setTopics, m_preSanitizer, m_postSanitizer,
                    m_parsers, m_topics, matches, requestedMode, hist >>

\* AimlEngine::setLemmatizer
setLemmatizer(kind) ==
    /\ Called
    /\ m_lemmatizer' = kind
    /\ m_dirty' = TRUE
    /\ ret' = [NoCall EXCEPT !.op = "setLemmatizer"]
    /\ UNCHANGED << m_rules, m_setTopics, m_preSanitizer, m_postSanitizer,
                    m_parsers, m_topics, matches, requestedMode, hist >>

\* AimlEngine::setPostSanitizer
setPostSanitizer(kind) ==
    /\ Called
    /\ m_postSanitizer' = kind
    /\ m_dirty' = TRUE
    /\ ret' = [NoCall EXCEPT !.op = "setPostSanitizer"]
    /\ UNCHANGED << m_rules, m_setTopics, m_preSanitizer, m_lemmatizer,
                    m_parsers, m_topics, matches, requestedMode, hist >>

\* AimlEngine::property; an invalid QVariant reads as ""
property(name) ==
    /\ Called
    /\ ret' = [NoCall EXCEPT !.op = "property", !.name = name,
               !.value = IF name = NLP_PROP_PREFER_CUR_TOPIC
                         THEN (IF m_setTopics THEN "true" ELSE "false")
                         ELSE ""]
    /\ UNCHANGED << m_rules, m_dirty, m_setTopics, m_preSanitizer, m_lemmatizer,
                    m_postSanitizer, m_parsers, m_topics, matches, requestedMode, hist >>

\* QVariant::toBool of the values used
toBool(value) == value = "true"

\* AimlEngine::setProperty
setProperty(name, value) ==
    /\ Called
    /\ IF name = NLP_PROP_PREFER_CUR_TOPIC
       THEN /\ m_setTopics' = toBool(value)
            /\ m_dirty' = (m_dirty \/ toBool(value) # m_setTopics)
       ELSE UNCHANGED << m_setTopics, m_dirty >>
    /\ requestedMode' = IF name = NLP_PROP_OUTPUT_MODE THEN value ELSE requestedMode
    /\ ret' = [NoCall EXCEPT !.op = "setProperty", !.name = name, !.value = value]
    /\ UNCHANGED << m_rules, m_preSanitizer, m_lemmatizer, m_postSanitizer,
                    m_parsers, m_topics, matches, hist >>

\* clear that empties the rule set and the topics only
clear_keepIndex ==
    /\ Called
    /\ m_rules' = <<>>
    /\ m_topics' = <<>>
    /\ ret' = [NoCall EXCEPT !.op = "clear"]
    /\ hist' = <<>>
    /\ UNCHANGED << m_dirty, m_parsers, m_setTopics, m_preSanitizer, m_lemmatizer,
                    m_postSanitizer, matches, requestedMode >>

\* AimlEngine::clear
clear ==
    /\ Called
    /\ m_dirty' = TRUE
    /\ m_rules' = <<>>
    /\ m_parsers' = <<>>
    /\ m_topics' = <<>>
    /\ ret' = [NoCall EXCEPT !.op = "clear"]
    /\ hist' = <<>>
    /\ UNCHANGED << m_setTopics, m_preSanitizer, m_lemmatizer, m_postSanitizer,
                    matches, requestedMode >>

(***************************************************************************)
(* The operations as steps of parallel threads.  A thread enters an        *)
(* operation, takes m_mutex where the code constructs a QMutexLocker, runs *)
(* the body statement by statement and gives the lock back on return.      *)
(***************************************************************************)
ThreadRules ==
    { Rule(7, << <<"a">> >>, <<Text(<<"P">>)>>, {}, "t1"),
      Rule(2, << <<"a">> >>, <<O0, O1>>, {"u1"}, "t2") }

\* the calls of the threads; a query comes with the shuffle source it will
\* draw from, one that keeps the outputs in order or one that reverses them
ThreadCalls ==
    { [NoJob EXCEPT !.op = "setRules", !.rules = l] : l \in RuleLists(ThreadRules) \ {<<>>} }
    \cup { [NoJob EXCEPT !.op = "getResponse", !.input = <<"a">>, !.target = "u1",
                          !.oracle = oracle] :
             oracle \in {Identity, [i \in 1..MaxOutputs |-> MaxOutputs + 1 - i]} }
    \cup { [NoJob EXCEPT !.op = "getResponse", !.input = <<"b">>, !.target = "u1",
                          !.oracle = Identity],
           [NoJob EXCEPT !.op = "getAllResponses", !.input = <<"a">>, !.target = "u1",
                          !.oracle = Identity] }
    \cup { [NoJob EXCEPT !.op = "setPreSanitizer", !.value = "default"],
           [NoJob EXCEPT !.op = "setLemmatizer", !.value = "mock"],
           [NoJob EXCEPT !.op = "setPostSanitizer", !.value = "default"],
           [NoJob EXCEPT !.op = "setProperty", !.value = "true"],
           [NoJob EXCEPT !.op = "clear"] }

Queries == {"getResponse", "getAllResponses"}

\* a step of a thread leaves the single caller's record alone
Stepped(t) == UNCHANGED << matches, ret, requestedMode, hist >>

\* thread t enters the operation call
Begin(t, call) ==
    /\ pc[t] = "idle"
    /\ calls < MaxCalls
    /\ calls' = calls + 1
    /\ job' = [job EXCEPT ![t] = call]
    /\ pc' = [pc EXCEPT ![t] = "lock"]
    /\ Stepped(t)
    /\ UNCHANGED << m_rules, m_dirty, m_setTopics, m_preSanitizer, m_lemmatizer,
                    m_postSanitizer, m_parsers, m_topics, holders >>

\* the fields a query reads, as they are now
Engine ==
    [rules |-> m_rules, dirty |-> m_dirty, setTopics |-> m_setTopics,
     pre |-> m_preSanitizer, lem |-> m_lemmatizer, post |-> m_postSanitizer,
     parsers |-> m_parsers, topics |-> m_topics]

\* the lock is taken by t; a query notes the state it starts from and tests
\* m_dirty
Locked(t) ==
    /\ holders' = holders \cup {t}
    /\ job' = [job EXCEPT ![t].snap = IF job[t].op \in Queries THEN Engine ELSE NoEngine]
    /\ pc' = [pc EXCEPT ![t] = IF job[t].op \notin Queries THEN "store"
                                ELSE IF m_dirty THEN "refresh" ELSE "query"]
    /\ Stepped(t)
    /\ UNCHANGED << m_rules, m_dirty, m_setTopics, m_preSanitizer, m_lemmatizer,
                    m_postSanitizer, m_parsers, m_topics, calls >>

\* a QMutexLocker that does not wait for the holder
Acquire_noWait(t) ==
    /\ pc[t] = "lock"
    /\ Locked(t)

\* QMutexLocker locker(m_mutex) on a QMutex::Recursive: waits while another
\* thread holds the lock
Acquire(t) ==
    /\ pc[t] = "lock"
    /\ holders \subseteq {t}
    /\ Locked(t)

\* refreshAiml, first half: m_parsers.clear() and the any-user partition
RefreshAny(t) ==
    /\ pc[t] = "refresh"
    /\ m_parsers' = [n \in {ANY_USER} |->
                        NewParser(buildAimlTarget(m_rules, ANY_USER, m_setTopics,
                                                  m_preSanitizer, m_lemmatizer,
                                                  m_postSanitizer))]
    /\ job' = [job EXCEPT ![t].rebuilds = @ + 1]
    /\ pc' = [pc EXCEPT ![t] = "targets"]
    /\ Stepped(t)
    /\ UNCHANGED << m_rules, m_dirty, m_setTopics, m_preSanitizer, m_lemmatizer,
                    m_postSanitizer, m_topics, holders, calls >>

\* refreshAiml, second half: a partition for each target that has none yet;
\* then _getAllResponses resets m_dirty
RefreshTargets(t) ==
    /\ pc[t] = "targets"
    /\ m_parsers' = [n \in DOMAIN m_parsers
                            \cup UNION {m_rules[i].target : i \in 1..Len(m_rules)} |->
                        IF n \in DOMAIN m_parsers
                        THEN m_parsers[n]
                        ELSE NewParser(buildAimlTarget(m_rules, n, m_setTopics,
                                                       m_preSanitizer, m_lemmatizer,
                                                       m_postSanitizer))]
    /\ m_dirty' = FALSE
    /\ pc' = [pc EXCEPT ![t] = "query"]
    /\ Stepped(t)
    /\ UNCHANGED << m_rules, m_setTopics, m_preSanitizer, m_lemmatizer,
                    m_postSanitizer, m_topics, holders, calls, job >>

\* one getAllResponsesWithParser has run and left q
Queried(t, q, fallsBack) ==
    /\ m_parsers' = q.parsers
    /\ m_topics' = q.topics
    /\ job' = [job EXCEPT ![t].q = q]
    /\ pc' = [pc EXCEPT ![t] = IF fallsBack /\ q.responses = <<>>
                                THEN "fallback" ELSE "return"]
    /\ Stepped(t)
    /\ UNCHANGED << m_rules, m_dirty, m_setTopics, m_preSanitizer, m_lemmatizer,
                    m_postSanitizer, holders, calls >>

\* _getAllResponses: the query of the partner's partition
QueryTarget(t) ==
    /\ pc[t] = "query"
    /\ \E q \in { getAllResponsesWithParser(
                       [NoQuery EXCEPT !.parsers = m_parsers, !.topics = m_topics],
                       removeAmp(normalize(m_preSanitizer, m_lemmatizer, m_postSanitizer,
                                           job[t].input)),
                       job[t].target, job[t].target, job[t].oracle) } :
           Queried(t, q, job[t].target # ANY_USER)

\* _getAllResponses: the query of the any-user partition
QueryFallback(t) ==
    /\ pc[t] = "fallback"
    /\ \E q \in { getAllResponsesWithParser(
                       [job[t].q EXCEPT !.parsers = m_parsers, !.topics = m_topics],
                       removeAmp(normalize(m_preSanitizer, m_lemmatizer, m_postSanitizer,
                                           job[t].input)),
                       job[t].target, ANY_USER, job[t].oracle) } :
           Queried(t, q, FALSE)

\* the body of a setter has run
Stored(t) ==
    /\ pc' = [pc EXCEPT ![t] = "return"]
    /\ Stepped(t)
    /\ UNCHANGED << holders, calls, job >>

\* setRules: m_rules = rules; m_dirty = true
StoreRules(t) ==
    /\ pc[t] = "store" /\ job[t].op = "setRules"
    /\ m_rules' = job[t].rules
    /\ m_dirty' = TRUE
    /\ Stored(t)
    /\ UNCHANGED << m_setTopics, m_preSanitizer, m_lemmatizer, m_postSanitizer,
                    m_parsers, m_topics >>

\* setPreSanitizer, setLemmatizer, setPostSanitizer: reset and m_dirty = true
StoreCollaborator(t) ==
    /\ pc[t] = "store"
    /\ job[t].op \in {"setPreSanitizer", "setLemmatizer", "setPostSanitizer"}
    /\ m_preSanitizer' = IF job[t].op = "setPreSanitizer" THEN job[t].value
                         ELSE m_preSanitizer
    /\ m_lemmatizer' = IF job[t].op = "setLemmatizer" THEN job[t].value
                       ELSE m_lemmatizer
    /\ m_postSanitizer' = IF job[t].op = "setPostSanitizer" THEN job[t].value
                          ELSE m_postSanitizer
    /\ m_dirty' = TRUE
    /\ Stored(t)
    /\ UNCHANGED << m_rules, m_setTopics, m_parsers, m_topics >>

\* setProperty(prefer-current-topic, value)
StoreProperty(t) ==
    /\ pc[t] = "store" /\ job[t].op = "setProperty"
    /\ m_setTopics' = toBool(job[t].value)
    /\ m_dirty' = (m_dirty \/ toBool(job[t].value) # m_setTopics)
    /\ Stored(t)
    /\ UNCHANGED << m_rules, m_preSanitizer, m_lemmatizer, m_postSanitizer,
                    m_parsers, m_topics >>

\* clear
StoreClear(t) ==
    /\ pc[t] = "store" /\ job[t].op = "clear"
    /\ m_dirty' = TRUE
    /\ m_rules' = <<>>
    /\ m_parsers' = <<>>
    /\ m_topics' = <<>>
    /\ Stored(t)
    /\ UNCHANGED << m_setTopics, m_preSanitizer, m_lemmatizer, m_postSanitizer >>

\* property(prefer-current-topic) is entered: its body constructs no
\* QMutexLocker
BeginProperty(t) ==
    /\ pc[t] = "idle"
    /\ calls < MaxCalls
    /\ calls' = calls + 1
    /\ job' = [job EXCEPT ![t] = [NoJob EXCEPT !.op = "property"]]
    /\ pc' = [pc EXCEPT ![t] = "read"]
    /\ Stepped(t)
    /\ UNCHANGED << m_rules, m_dirty, m_setTopics, m_preSanitizer, m_lemmatizer,
                    m_postSanitizer, m_parsers, m_topics, holders >>

\* return QVariant(m_setTopics); a read while a setProperty of another thread
\* is in its body races with the write and gives the old or the new value
ReadProperty(t) ==
    /\ pc[t] = "read"
    /\ \E v \in {m_setTopics}
                 \cup { toBool(job[w].value) :
                          w \in {u \in Threads : pc[u] = "store" /\ job[u].op = "setProperty"} } :
          job' = [job EXCEPT ![t].value = IF v THEN "true" ELSE "false"]
    /\ pc' = [pc EXCEPT ![t] = "idle"]
    /\ Stepped(t)
    /\ UNCHANGED << m_rules, m_dirty, m_setTopics, m_preSanitizer, m_lemmatizer,
                    m_postSanitizer, m_parsers, m_topics, holders, calls >>

\* a return that leaves the lock taken
Return_keepLock(t) ==
    /\ pc[t] = "return"
    /\ pc' = [pc EXCEPT ![t] = "idle"]
    /\ Stepped(t)
    /\ UNCHANGED << m_rules, m_dirty, m_setTopics, m_preSanitizer, m_lemmatizer,
                    m_postSanitizer, m_parsers, m_topics, calls, job, holders >>

\* the operation returns: ~QMutexLocker gives the lock back
Return(t) ==
    /\ pc[t] = "return"
    /\ holders' = holders \ {t}
    /\ pc' = [pc EXCEPT ![t] = "idle"]
    /\ Stepped(t)
    /\ UNCHANGED << m_rules, m_dirty, m_setTopics, m_preSanitizer, m_lemmatizer,
                    m_postSanitizer, m_parsers, m_topics, calls, job >>

\* the steps of thread t inside an operation
Step(t) ==
    \/ Acquire(t)
    \/ RefreshAny(t)
    \/ RefreshTargets(t)
    \/ QueryTarget(t)
    \/ QueryFallback(t)
    \/ StoreRules(t)
    \/ StoreCollaborator(t)
    \/ StoreProperty(t)
    \/ StoreClear(t)
    \/ Return(t)

\* Matching, priorities, targets and topics.  No rule of MatchRules has
\* several outputs, so no call draws a shuffle.
Next ==
    \/ \E newRules \in RuleLists(MatchRules) : setRules(newRules)
    \/ \E input \in UserInputs, target \in CallTargets :
          getResponse(input, target, Identity)
    \/ setProperty(NLP_PROP_PREFER_CUR_TOPIC, "true")
    \/ setLemmatizer("mock")

Spec == Init /\ [][Next]_vars

\* Output rotation
NextRotate ==
    \/ \E newRules \in RuleLists(RotateRules) : setRules(newRules)
    \/ \E input \in {<<"a">>, <<"b">>}, target \in CallTargets :
          \E oracle \in Oracles(input, target) : getResponse(input, target, oracle)
    \/ setProperty(NLP_PROP_OUTPUT_MODE, "sequential")
    \/ setLemmatizer("mock")

SpecRotate == Init /\ [][NextRotate]_vars

\* Redirects and the loop guard.  No rule of RedirectRules has several
\* outputs.
NextRedirect ==
    \/ \E newRules \in RuleLists(RedirectRules) : setRules(newRules)
    \/ \E input \in {<<"a">>, <<"b">>}, target \in CallTargets :
          getResponse(input, target, Identity)
    \/ setProperty(NLP_PROP_PREFER_CUR_TOPIC, "true")

SpecRedirect == Init /\ [][NextRedirect]_vars

\* Properties: both names of the interface, read and written, between rule
\* sets and calls.
PropertyValues ==
    { <<NLP_PROP_PREFER_CUR_TOPIC, "true">>, <<NLP_PROP_PREFER_CUR_TOPIC, "false">>,
      <<NLP_PROP_OUTPUT_MODE, "sequential">>, <<NLP_PROP_OUTPUT_MODE, "random">> }

NextProperty ==
    \/ \E nv \in PropertyValues : setProperty(nv[1], nv[2])
    \/ \E name \in {NLP_PROP_PREFER_CUR_TOPIC, NLP_PROP_OUTPUT_MODE} : property(name)
    \/ \E newRules \in RuleLists(ThreadRules
                                    \cup {Rule(4, << <<"a">> >>, <<Text(<<"Q">>)>>, {}, "t1"),
                                          Rule(5, << <<"b">> >>, <<Text(<<"R">>)>>, {}, "t2")}) :
          setRules(newRules)
    \/ \E input \in {<<"a">>, <<"b">>}, target \in {ANY_USER, "u1"} :
          getResponse(input, target, Identity)

SpecProperty == Init /\ [][NextProperty]_vars

\* Configuration: every operation that replaces the rule set, a normalizer
\* or the preference for topics, between calls for ANY and for u1; the
\* pattern "A" is registered as "a" by every normalizer but the null ones.
NextSetters ==
    \/ \E newRules \in RuleLists({ Rule(7, << <<"A">> >>, <<Text(<<"P">>)>>, {}, "t1"),
                                   Rule(2, << <<"a">> >>, <<Text(<<"Q">>)>>,
                                        {"u1", "u2"}, "t2") }) :
          setRules(newRules)
    \/ \E target \in {ANY_USER, "u1"} : getResponse(<<"a">>, target, Identity)
    \/ setProperty(NLP_PROP_PREFER_CUR_TOPIC, "true")
    \/ setPreSanitizer("default")
    \/ setLemmatizer("mock")
    \/ setPostSanitizer("default")
    \/ clear
    \/ rules

SpecSetters == Init /\ [][NextSetters]_vars

\* Parallel callers: two threads, each in at most one operation at a time.
NextThreads ==
    \/ \E t \in Threads, call \in ThreadCalls : Begin(t, call)
    \/ \E t \in Threads : Acquire(t)
    \/ \E t \in Threads : RefreshAny(t)
    \/ \E t \in Threads : RefreshTargets(t)
    \/ \E t \in Threads : QueryTarget(t)
    \/ \E t \in Threads : QueryFallback(t)
    \/ \E t \in Threads : StoreRules(t)
    \/ \E t \in Threads : StoreCollaborator(t)
    \/ \E t \in Threads : StoreProperty(t)
    \/ \E t \in Threads : StoreClear(t)
    \/ \E t \in Threads : Return(t)

SpecThreads == Init /\ [][NextThreads]_vars

\* The preference for topics between threads: written by setProperty, read by
\* property and by the rebuild a query starts.
NextThreadsProperty ==
    \/ \E t \in Threads :
          \E call \in { [NoJob EXCEPT !.op = "setProperty", !.value = "true"],
                        [NoJob EXCEPT !.op = "setProperty", !.value = "false"],
                        [NoJob EXCEPT !.op = "setRules",
                                      !.rules = <<Rule(7, << <<"a">> >>, <<Text(<<"P">>)>>,
                                                       {}, "t1")>>],
                        [NoJob EXCEPT !.op = "getResponse", !.input = <<"a">>,
                                      !.target = "u1", !.oracle = Identity] } :
             Begin(t, call)
    \/ \E t \in Threads : BeginProperty(t)
    \/ \E t \in Threads : ReadProperty(t)
    \/ \E t \in Threads : Acquire(t)
    \/ \E t \in Threads : RefreshAny(t)
    \/ \E t \in Threads : RefreshTargets(t)
    \/ \E t \in Threads : QueryTarget(t)
    \/ \E t \in Threads : QueryFallback(t)
    \/ \E t \in Threads : StoreRules(t)
    \/ \E t \in Threads : StoreProperty(t)
    \/ \E t \in Threads : Return(t)

SpecThreadsProperty == Init /\ [][NextThreadsProperty]_vars

\* The codec alone: a rule id and an input number are packed, and the key is
\* unpacked.  Rule ids around 2^12, 2^51 and 2^63, input numbers around 2^12.
CodecRuleIds ==
    { <<a, b, b, b, c, d>> : a \in {0, 1, 4095}, b \in {0, 4095},
                             c \in {0, 7, 8, 4095}, d \in {0, 8, 15} }

CodecInputNumbers == {0, 1, 4095, 4096, 4097, 8191}

InitCodec ==
    /\ m_rules = <<>>
    /\ m_dirty = FALSE
    /\ m_setTopics = FALSE
    /\ m_preSanitizer = "null"
    /\ m_lemmatizer = "null"
    /\ m_postSanitizer = "null"
    /\ m_parsers = <<>>
    /\ m_topics = <<>>
    /\ matches = <<>>
    /\ ret \in { [op |-> "codec", ruleId |-> r, inputNumber |-> k,
                   categoryId |-> Long(0), gotRuleId |-> Long(0), gotInputNumber |-> 0] :
                     r \in CodecRuleIds, k \in CodecInputNumbers }
    /\ requestedMode = ""
    /\ hist = <<>>
    /\ calls = 0
    /\ holders = {}
    /\ pc = [t \in Threads |-> "idle"]
    /\ job = [t \in Threads |-> NoJob]

\* buildAiml(rule) packs the pair into the id of the category
Encode ==
    /\ ret.op = "codec"
    /\ ret' = [ret EXCEPT !.op = "getCategoryId",
                          !.categoryId = getCategoryId(ret.ruleId, ret.inputNumber)]
    /\ UNCHANGED << m_rules, m_dirty, m_setTopics, m_preSanitizer, m_lemmatizer,
                    m_postSanitizer, m_parsers, m_topics, matches, requestedMode,
                    hist, calls, holders, pc, job >>

\* convert() unpacks the id the backend reports
Decode ==
    /\ ret.op = "getCategoryId"
    /\ ret' = [ret EXCEPT !.op = "convert",
                          !.gotRuleId = getRuleId(ret.categoryId),
                          !.gotInputNumber = getInputNumber(ret.categoryId)]
    /\ UNCHANGED << m_rules, m_dirty, m_setTopics, m_preSanitizer, m_lemmatizer,
                    m_postSanitizer, m_parsers, m_topics, matches, requestedMode,
                    hist, calls, holders, pc, job >>

NextCodec ==
    \/ Encode
    \/ Decode

SpecCodec == InitCodec /\ [][NextCodec]_vars

\* Termination: the same threads under a scheduler that lets every thread
\* that can take a step take one eventually.  One rule set, whose rules have
\* one output each, and one call of each kind.
FairCalls ==
    { [NoJob EXCEPT !.op = "setRules",
                    !.rules = << Rule(7, << <<"a">> >>, <<Text(<<"P">>)>>, {}, "t1"),
                                 Rule(4, << <<"b">> >>, <<Text(<<"Q">>)>>, {"u1"}, "t2") >>],
      [NoJob EXCEPT !.op = "getResponse", !.input = <<"a">>, !.target = "u1",
                    !.oracle = Identity],
      [NoJob EXCEPT !.op = "getResponse", !.input = <<"b">>, !.target = "u1",
                    !.oracle = Identity],
      [NoJob EXCEPT !.op = "setLemmatizer", !.value = "mock"],
      [NoJob EXCEPT !.op = "setProperty", !.value = "true"],
      [NoJob EXCEPT !.op = "clear"] }

NextThreadsFair ==
    \/ \E t \in Threads, call \in FairCalls : Begin(t, call)
    \/ \E t \in Threads : Step(t)

SpecThreadsFair ==
    Init /\ [][NextThreadsFair]_vars /\ \A t \in Threads : WF_vars(Step(t))

(***************************************************************************)
(* Vocabulary of the properties.                                           *)
(***************************************************************************)
\* the last call was getResponse and the state is the one it left
Answered == ret.op = "getResponse"

\* the input of the last call as the query path saw it
NormInput == removeAmp(normalize(m_preSanitizer, m_lemmatizer, m_postSanitizer, ret.input))

\* the pattern of input variant k (from 0) of a rule, as it is registered
PatternOf(rule, k) == normalize(m_preSanitizer, m_lemmatizer, m_postSanitizer, rule.input[k + 1])

\* the input variants of a rule that match text x
MatchingInputs(rule, x) == {k \in 0..(Len(rule.input) - 1) : Matches(PatternOf(rule, k), x)}

RuleMatches(rule, x) == MatchingInputs(rule, x) # {}

RuleSet == Range(m_rules)

\* the rule and the input index the last call reported
Reported == RuleById(m_rules, matches[1][1])
ReportedIndex == matches[1][2]

\* C1: after getResponse the caller's match list has at most one entry and
\* the output is empty exactly when the list is empty, whatever the list
\* held before the call
C1_AtMostOneMatchIffOutput ==
    Answered => /\ Len(matches) <= 1
                /\ (ret.output = NoText) <=> (matches = <<>>)

\* a no-match call made with a list that still held the previous match
C1_Witness ==
    Answered /\ ret.matchesBefore # <<>> /\ matches = <<>> /\ ret.output = NoText


\* the partition a rule is registered in (AimlEngine::buildAiml)
InPartition(rule, name) ==
    \/ name = ANY_USER /\ rule.target = {}
    \/ name \in rule.target

\* the partition that gave the answer of the last call
AnsweredBy == ret.queried[Len(ret.queried)]

\* the rules of partition name that match text x
MatchingRules(name, x) == {rule \in RuleSet : InPartition(rule, name) /\ RuleMatches(rule, x)}

\* rule matches x by a pattern without wildcard
MatchesExactly(rule, x) == \E k \in MatchingInputs(rule, x) : ~hasWildcard(PatternOf(rule, k))

\* C2: a reported match (r, k) names a rule of the current rule set and an
\* index into its inputs, and inputs[k], as registered, matches the normalized
\* input
C2_MatchIdentity ==
    Answered /\ matches # <<>> =>
        /\ HasRule(m_rules, matches[1][1])
        /\ ReportedIndex \in 0..(Len(Reported.input) - 1)
        /\ Matches(PatternOf(Reported, ReportedIndex), NormInput)

\* rule 7 with three input variants matched by its second variant
C2_Witness ==
    /\ Answered
    /\ matches = << <<7, 1>> >>
    /\ HasRule(m_rules, 7)
    /\ Len(RuleById(m_rules, 7).input) = 3

\* C3: a call for a partner whose own partition gives no response returns the
\* output and the match of an unscoped rule that matches the input, if there
\* is one; a call for ANY queries the any-target partition only, and once
C3_FallbackToAnyTarget ==
    Answered =>
        /\ ret.target = ANY_USER =>
              /\ Len(ret.queried) <= 1
              /\ \A i \in 1..Len(ret.queried) : ret.queried[i] = ANY_USER
        /\ ( /\ ret.target # ANY_USER
             /\ MatchingRules(ret.target, NormInput) = {}
             /\ MatchingRules(ANY_USER, NormInput) # {} ) =>
              /\ matches # <<>>
              /\ HasRule(m_rules, matches[1][1])
              /\ Reported \in MatchingRules(ANY_USER, NormInput)
              /\ \E j \in 1..Len(Reported.output) : ret.output = Reported.output[j].text

\* the partner's partition exists, is queried first and gives nothing; the
\* any-target partition answers
C3_Witness ==
    /\ Answered
    /\ ret.target = "u1"
    /\ ret.queried = <<"u1", ANY_USER>>
    /\ matches # <<>>
    /\ Reported.target = {}

\* C4: when a rule scoped to the partner of the call matches the input and has
\* an output, the reported rule is scoped to that partner, whatever wildcards
\* and topics say
C4_TargetBeatsGeneric ==
    Answered /\ (\E rule \in MatchingRules(ret.target, NormInput) :
                     ret.target # ANY_USER /\ rule.output # <<>>) =>
        /\ matches # <<>>
        /\ HasRule(m_rules, matches[1][1])
        /\ ret.target \in Reported.target

\* topics are preferred, the partner's topic is the one an unscoped matching
\* rule expects and no scoped matching rule expects, and a scoped rule is
\* reported
C4_Witness ==
    /\ Answered
    /\ m_setTopics
    /\ ret.topicBefore # ""
    /\ ret.target # ANY_USER
    /\ \E rule \in MatchingRules(ANY_USER, NormInput) : rule.topic = ret.topicBefore
    /\ \A rule \in MatchingRules(ret.target, NormInput) : rule.topic # ret.topicBefore
    /\ matches # <<>>
    /\ ret.target \in Reported.target

\* C5: the reported rule is unscoped or scoped to the partner of the call
C5_TargetScoping ==
    Answered /\ matches # <<>> /\ HasRule(m_rules, matches[1][1]) =>
        \/ Reported.target = {}
        \/ ret.target \in Reported.target

\* a call whose input matches a rule scoped to other partners only
C5_Witness ==
    /\ Answered
    /\ \E rule \in RuleSet : /\ rule.target # {}
                             /\ ret.target \notin rule.target
                             /\ RuleMatches(rule, NormInput)
                             /\ \A other \in RuleSet : other.target = rule.target

\* the current topic decides between the rules of the answering partition:
\* topics are preferred, the partner has a topic, and a rule that matches by
\* wildcard only expects it while no rule that matches exactly does
TopicDecides ==
    /\ m_setTopics
    /\ ret.topicBefore # ""
    /\ \E rule \in MatchingRules(AnsweredBy, NormInput) : rule.topic = ret.topicBefore
    /\ \A rule \in MatchingRules(AnsweredBy, NormInput) :
          rule.topic = ret.topicBefore => ~MatchesExactly(rule, NormInput)

\* a rule of the answering partition matches the input without wildcard
ExactCandidate ==
    /\ Answered
    /\ matches # <<>>
    /\ HasRule(m_rules, matches[1][1])
    /\ \E rule \in MatchingRules(AnsweredBy, NormInput) : MatchesExactly(rule, NormInput)

\* C6, as stated: when a pattern without wildcard of the answering partition
\* matches, the reported pattern has no wildcard
C6_ExactBeatsWildcard ==
    ExactCandidate => ~hasWildcard(PatternOf(Reported, ReportedIndex))

\* C6, amended: the same, unless the current topic decides for a rule that
\* matches by wildcard
C6_ExactBeatsWildcardUnlessTopic ==
    ExactCandidate /\ ~TopicDecides => ~hasWildcard(PatternOf(Reported, ReportedIndex))

\* a wildcard rule registered before an exact rule, both matching, the exact
\* one reported
C6_Witness ==
    /\ ExactCandidate
    /\ ~TopicDecides
    /\ \E i, j \in 1..Len(m_rules) :
          /\ i < j
          /\ m_rules[i] \in MatchingRules(AnsweredBy, NormInput)
          /\ ~MatchesExactly(m_rules[i], NormInput)
          /\ m_rules[j] = Reported

\* 0 when the rule matches x by a pattern without wildcard, 1 otherwise
WildClass(rule, x) == IF MatchesExactly(rule, x) THEN 0 ELSE 1

\* C7: with topics preferred and a rule of the answering partition that
\* expects the partner's topic and matches, the reported rule expects that
\* topic too, or differs from that rule in another criterion of priority
C7_TopicPreference ==
    Answered /\ m_setTopics /\ ret.topicBefore # "" /\ matches # <<>>
             /\ HasRule(m_rules, matches[1][1]) =>
        \A rule \in MatchingRules(AnsweredBy, NormInput) :
            rule.topic = ret.topicBefore =>
                \/ Reported.topic = ret.topicBefore
                \/ WildClass(Reported, NormInput) # WildClass(rule, NormInput)

\* a rule without topic registered before the rule that expects the partner's
\* topic, both matching exactly, the second one reported
C7_Witness ==
    /\ Answered
    /\ m_setTopics
    /\ ret.topicBefore # ""
    /\ matches # <<>>
    /\ \E i, j \in 1..Len(m_rules) :
          /\ i < j
          /\ m_rules[i] \in MatchingRules(AnsweredBy, NormInput)
          /\ MatchesExactly(m_rules[i], NormInput)
          /\ m_rules[i].topic # ret.topicBefore
          /\ m_rules[j] = Reported
          /\ MatchesExactly(Reported, NormInput)
          /\ Reported.topic = ret.topicBefore


\* the output texts of the rule of entry n of the history
OutputsAt(n) == RuleById(m_rules, hist[n].rule).output

\* the number of earlier matching calls of the rule of entry n
EarlierCalls(n) == Cardinality({i \in 1..(n - 1) : hist[i].rule = hist[n].rule})

\* sequential mode was asked for before every matching call up to entry n
SequentialUpTo(n) == \A i \in 1..n : hist[i].mode = "sequential"

\* entries m < n are consecutive matching calls of the same rule
Consecutive(m, n) ==
    /\ m < n
    /\ hist[m].rule = hist[n].rule
    /\ \A i \in (m + 1)..(n - 1) : hist[i].rule # hist[n].rule

\* C8: in sequential mode the n-th matching call of a rule since the rule set
\* was installed (n from 0) returns outputs[n mod size]
C8_SequentialRotation ==
    \A n \in 1..Len(hist) :
        SequentialUpTo(n) =>
            hist[n].output = OutputsAt(n)[(EarlierCalls(n) % Len(OutputsAt(n))) + 1].text

\* C9: in sequential mode the first matching call of a rule after setRules
\* returns outputs[0]
C9_SetRulesRestartsRotation ==
    \A n \in 1..Len(hist) :
        SequentialUpTo(n) /\ EarlierCalls(n) = 0 =>
            hist[n].output = OutputsAt(n)[1].text

\* C10: in random mode two consecutive matching calls of a rule never return
\* the same output
C10_NoImmediateRepeat ==
    \A m, n \in 1..Len(hist) :
        /\ Consecutive(m, n)
        /\ hist[m].mode # "sequential"
        /\ hist[n].mode # "sequential"
        => hist[m].output # hist[n].output


\* the output of entry n is one of the outputs of its rule
FromRule(n) == \E j \in 1..Len(OutputsAt(n)) : hist[n].output = OutputsAt(n)[j].text

\* C11: in random mode every matching call returns one of the rule's
\* outputs, and any 3 consecutive matching calls of a rule with 3 outputs
\* return each output exactly once
C11_RandomCoverage ==
    \A n \in 1..Len(hist) :
        hist[n].mode # "sequential" =>
            /\ FromRule(n)
            /\ \A l, m \in 1..Len(hist) :
                  /\ Consecutive(l, m)
                  /\ Consecutive(m, n)
                  /\ hist[l].mode # "sequential"
                  /\ Len(OutputsAt(n)) = 3
                  => {hist[l].output, hist[m].output, hist[n].output}
                         = {OutputsAt(n)[j].text : j \in 1..3}


\* rule redirects, and the rule of partition name that its redirect reaches
\* redirects back to it (possibly the rule itself)
LoopRule(rule, name) ==
    /\ rule.output # <<>>
    /\ rule.output[1].srai
    /\ \E back \in MatchingRules(name, rule.output[1].text) :
          /\ back.output # <<>>
          /\ back.output[1].srai
          /\ RuleMatches(rule, back.output[1].text)

\* the rules of the partition of the call that match the input are all
\* caught in a redirect cycle of that partition
LoopCall ==
    /\ Answered
    /\ MatchingRules(ret.target, NormInput) # {}
    /\ \A rule \in MatchingRules(ret.target, NormInput) : LoopRule(rule, ret.target)

\* C12: a call whose input matches a rule of a redirect cycle ends after a
\* bounded number of re-matching steps with empty output and no match
C12_LoopGuard ==
    LoopCall =>
        /\ ret.steps <= 2 * (MAX_REDIRECT_DEPTH + 1)
        /\ ret.output = NoText
        /\ matches = <<>>


\* the input of the last call matches no pattern of the partner's partition
\* nor of the any-target partition
NoPatternMatches ==
    /\ Answered
    /\ MatchingRules(ret.target, NormInput) = {}
    /\ MatchingRules(ANY_USER, NormInput) = {}

\* C13: an input that matches no pattern of the two partitions a call can
\* reach gives empty output and no match, on every call
C13_IdempotentNoMatch ==
    NoPatternMatches => ret.output = NoText /\ matches = <<>>

\* a later call on an unchanged rule set and a clean index, after a matching
\* call of the same partner has set its topic
C13_Witness ==
    /\ NoPatternMatches
    /\ m_rules # <<>>
    /\ ~ret.rebuilt
    /\ ret.topicBefore # ""
    /\ ret.output = NoText
    /\ matches = <<>>

(***************************************************************************)
(* Parallel callers.                                                       *)
(***************************************************************************)
\* index parsers holds, partition by partition, the categories that index
\* fresh holds
SameIndex(parsers, fresh) ==
    \A name \in DOMAIN parsers \cup DOMAIN fresh :
        (IF name \in DOMAIN parsers THEN parsers[name].cats ELSE <<>>)
            = (IF name \in DOMAIN fresh THEN fresh[name].cats ELSE <<>>)

\* C14: whenever a call queries the index or has just queried it, the index
\* is the whole index of one rule set, the one installed, and every rule the
\* call reports belongs to that rule set, however setRules calls of other
\* threads interleave
C14_AtomicReplacement ==
    \A t \in Threads :
        job[t].op \in Queries /\ pc[t] \in {"query", "fallback", "return"} =>
            /\ SameIndex(m_parsers, refreshAiml(m_rules, m_setTopics, m_preSanitizer,
                                                m_lemmatizer, m_postSanitizer))
            /\ \A i \in 1..Len(job[t].q.matches) : HasRule(m_rules, job[t].q.matches[i][1])

\* a call has rebuilt the index from a rule set and answered from it while
\* another thread waits to replace the rule set
C14_Witness ==
    /\ pc["T1"] = "return" /\ job["T1"].op = "getResponse" /\ job["T1"].rebuilds = 1
    /\ job["T1"].q.matches # <<>>
    /\ pc["T2"] = "lock" /\ job["T2"].op = "setRules"
    /\ m_rules # <<>> /\ job["T2"].rules # m_rules

\* the call of thread t has left what q says
Left(t, q) ==
    /\ job[t].q = q
    /\ m_parsers = q.parsers
    /\ m_topics = q.topics

\* _getAllResponses run without interruption from engine state e on the
\* index parsers0, which is e's own unless e is dirty
RunAlone(e, parsers0, normInput, target, oracle) ==
    Fallback(getAllResponsesWithParser(
                 [NoQuery EXCEPT !.parsers = parsers0, !.topics = e.topics],
                 normInput, target, target, oracle),
             normInput, target, oracle)

\* the call of thread t, which took the lock in engine state e, has left
\* what the uninterrupted call leaves
Serial(t, e) ==
    Left(t, RunAlone(e,
                     IF e.dirty
                     THEN refreshAiml(e.rules, e.setTopics, e.pre, e.lem, e.post)
                     ELSE e.parsers,
                     removeAmp(normalize(e.pre, e.lem, e.post, job[t].input)),
                     job[t].target, job[t].oracle))

\* C15: a query operation leaves, when it is about to return, the responses,
\* the matches, the topics and the rotation state that the same call leaves
\* when it runs alone from the state in which it took the lock
C15_SerializedCalls ==
    \A t \in Threads :
        job[t].op \in Queries /\ pc[t] = "return" =>
            Serial(t, job[t].snap)

\* a call for partner u1 has moved the rotation of a rule and set the topic
\* while another call for u1 waits for the lock
C15_Witness ==
    /\ pc["T1"] = "return" /\ job["T1"].op = "getResponse" /\ job["T1"].target = "u1"
    /\ pc["T2"] = "lock" /\ job["T2"].op = "getResponse" /\ job["T2"].target = "u1"
    /\ job["T1"].q.responses # <<>>
    /\ "u1" \in DOMAIN m_parsers /\ m_parsers["u1"].rot # <<>>
    /\ TopicOf(m_topics, "u1") = "t2"

\* C16: a step that writes the rule set, the dirty flag, the index or the
\* topics is taken by the one thread that holds the lock, and no step lets
\* two threads hold it
C16_LockDiscipline ==
    [][ /\ << m_rules, m_dirty, m_parsers, m_topics >>' # << m_rules, m_dirty, m_parsers, m_topics >>
            => \E t \in Threads : pc'[t] # pc[t] /\ holders = {t}
        /\ Cardinality(holders') <= 1 ]_vars

\* one thread is half way through a rebuild while the other, at the lock of
\* clear, must wait
C16_Witness ==
    /\ pc["T1"] = "targets" /\ holders = {"T1"}
    /\ pc["T2"] = "lock" /\ job["T2"].op = "clear"

\* C17: a thread that is not in an operation does not hold the lock, a call
\* rebuilds the index at most once and queries at most two partitions, and
\* every operation a thread has entered returns
C17_TerminatesAndReleases ==
    /\ [](\A t \in Threads : /\ pc[t] = "idle" => t \notin holders
                              /\ job[t].rebuilds <= 1
                              /\ Len(job[t].q.queried) <= 2)
    /\ \A t \in Threads : (pc[t] # "idle") ~> (pc[t] = "idle")

\* a getResponse has returned after one rebuild and two partition queries,
\* and the lock is free
C17_Witness ==
    /\ pc["T1"] = "idle" /\ job["T1"].op = "getResponse"
    /\ job["T1"].rebuilds = 1 /\ Len(job["T1"].q.queried) = 2
    /\ holders = {}

(***************************************************************************)
(* Dirty flag, properties, topic tracking.                                 *)
(***************************************************************************)
\* a query left the partitions it did not query as they were, and the
\* categories of all of them
SameParsers(after, before, queried) ==
    /\ DOMAIN after = DOMAIN before
    /\ \A name \in DOMAIN before :
        /\ after[name].cats = before[name].cats
        /\ name \notin Range(queried) => after[name] = before[name]

\* C18: setRules leaves the engine dirty and the index as it was; a
\* getResponse that finds the engine dirty leaves it clean with the whole
\* index of the current rule set; a getResponse that finds it clean leaves it
\* clean and the index as it was
C18_LazyRebuild ==
    [][ /\ ret'.op = "setRules" => m_dirty' /\ m_parsers' = m_parsers
        /\ ret'.op = "getResponse" /\ m_dirty =>
              /\ ~m_dirty'
              /\ ret'.rebuilt
              /\ DOMAIN m_parsers' = {ANY_USER} \cup UNION {rule.target : rule \in RuleSet}
              /\ SameIndex(m_parsers', refreshAiml(m_rules, m_setTopics, m_preSanitizer,
                                                   m_lemmatizer, m_postSanitizer))
        /\ ret'.op = "getResponse" /\ ~m_dirty =>
              /\ ~m_dirty'
              /\ ~ret'.rebuilt
              /\ SameParsers(m_parsers', m_parsers, ret'.queried) ]_vars

\* a call found the engine dirty after a new rule set, rebuilt and answered
\* from a partition of a partner
C18_Witness ==
    /\ Answered /\ ret.rebuilt /\ ~m_dirty
    /\ ret.output # NoText /\ ret.queried = <<"u1">>
    /\ Len(m_rules) = 2

\* C19: property(name) right after setProperty(name, v) returns v, for both
\* property names; prefer-current-topic reads false on a new engine; and the
\* getResponse right after setProperty(prefer-current-topic, v) works on an
\* index built with v
C19_PropertyRoundTrip ==
    [][ /\ ret.op = "setProperty" /\ ret'.op = "property" /\ ret'.name = ret.name
              => ret'.value = ret.value
        /\ calls = 0 /\ ret'.op = "property" /\ ret'.name = NLP_PROP_PREFER_CUR_TOPIC
              => ret'.value = "false"
        /\ ret.op = "setProperty" /\ ret.name = NLP_PROP_PREFER_CUR_TOPIC
                                   /\ ret'.op = "getResponse"
              => SameIndex(m_parsers', refreshAiml(m_rules, toBool(ret.value),
                                                   m_preSanitizer, m_lemmatizer,
                                                   m_postSanitizer)) ]_vars

\* C20: when the partner of a call had a topic and the call matched a rule
\* whose topic is empty, the partner still has that topic after the call
C20_EmptyTopicKeepsTopic ==
    Answered /\ ret.topicBefore # "" /\ matches # <<>> /\ Reported.topic = ""
        => TopicOf(m_topics, ret.target) = ret.topicBefore

\* C21: after a getResponse that reports a rule whose topic is not empty, the
\* tracked topic of the call's partner is that topic, from whichever
\* partition the answer came and whatever prefer-current-topic is
C21_TopicRecorded ==
    Answered /\ matches # <<>> /\ Reported.topic # ""
        => TopicOf(m_topics, ret.target) = Reported.topic

\* C22: a rule without outputs is kept out of the index: no call reports it,
\* and an input matched by a rule with outputs of the partitions the call
\* reaches, none of them a redirect, is answered
C22_EmptyOutputsExcluded ==
    Answered =>
        /\ matches # <<>> => Reported.output # <<>>
        /\ LET cands == MatchingRules(ret.target, NormInput)
                            \cup MatchingRules(ANY_USER, NormInput)
           IN  /\ \E rule \in cands : rule.output # <<>>
               /\ \A rule \in cands : \A i \in 1..Len(rule.output) : ~rule.output[i].srai
               => ret.output # NoText

\* C24: of the rules of the answering partition that match the input and are
\* tied with the reported rule on scope, topic and wildcard use, the reported
\* rule is the first of the list given to setRules
C24_AuthoringOrder ==
    Answered /\ matches # <<>> /\ HasRule(m_rules, matches[1][1]) =>
        \A j \in 1..Len(m_rules) :
            ( /\ m_rules[j] \in MatchingRules(AnsweredBy, NormInput)
              /\ m_rules[j].target = Reported.target
              /\ m_rules[j].topic = Reported.topic
              /\ MatchesExactly(m_rules[j], NormInput)
                    = ~hasWildcard(PatternOf(Reported, ReportedIndex)) )
            => \E i \in 1..j : m_rules[i] = Reported

\* two unscoped rules with the same pattern and topic; the first is reported
C24_Witness ==
    /\ Answered
    /\ Len(m_rules) = 2
    /\ m_rules[1].input = m_rules[2].input
    /\ m_rules[1].target = m_rules[2].target
    /\ m_rules[1].topic = m_rules[2].topic
    /\ matches = << <<m_rules[1].id, 0>> >>
    /\ ret.output = m_rules[1].output[1].text

\* C25: when the partition of a named partner resolves the input into a
\* redirect cycle, the call returns empty output and no match, even though an
\* unscoped rule matches the same input
C25_GuardFinal ==
    ( /\ LoopCall
      /\ ret.target # ANY_USER
      /\ MatchingRules(ANY_USER, NormInput) # {} )
    => ret.output = NoText /\ matches = <<>>

\* C26: every partition a call queries, the partner's own and the any-target
\* one, is queried under the topic the partner had when the call began
C26_TopicReadBeforeWritten ==
    Answered => \A i \in 1..Len(ret.under) : ret.under[i] = ret.topicBefore

\* C27: a getResponse call for a partner leaves the tracked topic of every
\* other partner and of ANY as it was; its first query runs under the topic
\* tracked for the partner of the call, and a later one under that topic or
\* one a rule of the partner's partitions has set, whatever topic the last
\* call left in a shared partition
C27_TopicsIsolated ==
    [][ret'.op = "getResponse" /\ calls' # calls =>
          /\ \A other \in (DOMAIN m_topics \cup DOMAIN m_topics') \ {ret'.target} :
                /\ other \in DOMAIN m_topics
                /\ other \in DOMAIN m_topics'
                /\ m_topics'[other] = m_topics[other]
          /\ \A i \in 1..Len(ret'.under) :
                \/ ret'.under[i] = TopicOf(m_topics, ret'.target)
                \/ /\ i > 1
                   /\ \E rule \in RuleSet : /\ InPartition(rule, ret'.queried[i - 1])
                                            /\ rule.topic = ret'.under[i] ]_vars

\* a call for u1 answered by the any-target partition, which the call before
\* it, for ANY, left under another topic than the one of u1
C27_Witness ==
    /\ Answered
    /\ ret.target = "u1"
    /\ matches # <<>>
    /\ AnsweredBy = ANY_USER
    /\ ANY_USER \in DOMAIN m_topics
    /\ m_topics[ANY_USER] # ret.topicBefore
    /\ m_topics[ANY_USER] # ""

\* C28: setRules, setProperty and the three normalizer setters leave every
\* tracked topic as it was, and the first query after the rebuild they ask
\* for runs under the topic the partner of the call had before the rebuild
C28_TopicsSurviveRebuild ==
    [][calls' # calls =>
          /\ ret'.op \in {"setRules", "setProperty", "setLemmatizer",
                          "setPreSanitizer", "setPostSanitizer"}
                => m_topics' = m_topics
          /\ ret'.op = "getResponse" /\ ret'.rebuilt /\ ret'.under # <<>>
                => ret'.under[1] = TopicOf(m_topics, ret'.target) ]_vars

\* a call for u1, whose topic is t2, rebuilds the index and is answered
C28_Witness ==
    /\ Answered
    /\ ret.rebuilt
    /\ ret.target = "u1"
    /\ ret.topicBefore = "t2"
    /\ ret.under = <<"t2">>
    /\ matches # <<>>

\* C29: the index a call has rebuilt has one partition for ANY and one for
\* each target named by a rule of the rule set, no other, and partition P
\* holds input k of rule R, as registered, under the key of (R, k) exactly
\* when R is unscoped and P is the any-target partition or P is a target of R
C29_Partitioning ==
    Answered /\ ret.rebuilt =>
        /\ DOMAIN m_parsers = {ANY_USER} \cup UNION {rule.target : rule \in RuleSet}
        /\ \A P \in DOMAIN m_parsers, rule \in RuleSet :
              \A k \in 0..(Len(rule.input) - 1) :
                  (\E c \in 1..Len(m_parsers[P].cats) :
                      /\ m_parsers[P].cats[c].id = getCategoryId(Long(rule.id), k)
                      /\ m_parsers[P].cats[c].pattern = escape(PatternOf(rule, k)))
                  <=> InPartition(rule, P)

\* the rebuilt index has the partitions of ANY, u1 and u2, and the rule set
\* has a scoped and an unscoped rule
C29_Witness ==
    /\ Answered
    /\ ret.rebuilt
    /\ DOMAIN m_parsers = {ANY_USER, "u1", "u2"}
    /\ \E rule \in RuleSet : rule.target = {}
    /\ \E rule \in RuleSet : rule.target = {"u1", "u2"}

\* C30: the index a call has queried holds, partition by partition, the
\* patterns of the current rule set under the current preference for topics
\* and the normalizers that normalized the input of the call, whatever
\* operations came before the call
C30_NoStaleIndex ==
    Answered =>
        SameIndex(m_parsers, refreshAiml(m_rules, m_setTopics, m_preSanitizer,
                                         m_lemmatizer, m_postSanitizer))

\* the rule with pattern "A" answers the input "a" of a call that follows
\* the change of a normalizer
C30_Witness ==
    /\ Answered
    /\ ret.rebuilt
    /\ ret.input = <<"a">>
    /\ matches = << <<7, 0>> >>
    /\ RuleById(m_rules, 7).input = << <<"A">> >>

\* C31: a thread that reads or writes the preference for topics, in property,
\* in setProperty or in the rebuild of the index, holds the lock
C31_ConfigurationLocked ==
    \A t \in Threads :
        ( \/ pc[t] = "read"
          \/ pc[t] = "store" /\ job[t].op = "setProperty"
          \/ pc[t] \in {"refresh", "targets"} )
        => t \in holders

\* C32: while topics are not preferred, a call reports the rule and the input
\* index that the same call reports from the same rule set and configuration
\* under any other tracked topic of its partner
C32_TopicIgnoredWhenDisabled ==
    Answered /\ ~m_setTopics =>
        \A L \in {"", "t1", "t2"} :
            RunAlone([topics |-> SetTopicOf(m_topics, ret.target, L)],
                     refreshAiml(m_rules, m_setTopics, m_preSanitizer, m_lemmatizer,
                                 m_postSanitizer),
                     NormInput, ret.target, Identity).matches = matches

\* topics are not preferred, the partner has a topic, a matching rule of the
\* answering partition expects it, and a rule that does not is reported
C32_Witness ==
    /\ Answered
    /\ ~m_setTopics
    /\ ret.topicBefore # ""
    /\ matches # <<>>
    /\ HasRule(m_rules, matches[1][1])
    /\ Reported.topic # ret.topicBefore
    /\ \E rule \in MatchingRules(AnsweredBy, NormInput) : rule.topic = ret.topicBefore

\* C33: with topics preferred and a topic tracked for the partner, an input
\* that only rules of other topics match, in the partitions the call reaches,
\* is answered by one of these rules
C33_PreferenceNotFilter ==
    LET cands == MatchingRules(ret.target, NormInput) \cup MatchingRules(ANY_USER, NormInput)
    IN  ( /\ Answered
          /\ m_setTopics
          /\ ret.topicBefore # ""
          /\ cands # {}
          /\ \A rule \in cands : rule.topic # ret.topicBefore )
        => /\ matches # <<>>
           /\ HasRule(m_rules, matches[1][1])
           /\ Reported \in cands
           /\ ret.output # NoText

\* the partner's topic is t1 and the reported rule expects t2
C33_Witness ==
    /\ Answered
    /\ m_setTopics
    /\ ret.topicBefore = "t1"
    /\ matches # <<>>
    /\ HasRule(m_rules, matches[1][1])
    /\ Reported.topic = "t2"
    /\ \A rule \in MatchingRules(ret.target, NormInput) \cup MatchingRules(ANY_USER, NormInput) :
          rule.topic # "t1"

\* C34: a rule id below 2^51 and an input number below 4096 come back from
\* the packed key as they went in, and no other such pair has the same key
C34_CodecRoundTrip ==
    ( /\ ret.op \in {"getCategoryId", "convert"}
      /\ ret.ruleId[6] = 0 /\ ret.ruleId[5] < 8
      /\ ret.inputNumber < 4096 )
    => /\ ret.op = "convert" =>
             /\ ret.gotRuleId = ret.ruleId
             /\ ret.gotInputNumber = ret.inputNumber
       /\ \A r \in CodecRuleIds, k \in CodecInputNumbers :
             ( /\ r[6] = 0 /\ r[5] < 8
               /\ k < 4096
               /\ getCategoryId(r, k) = ret.categoryId )
             => r = ret.ruleId /\ k = ret.inputNumber

\* the pair (2^51 - 1, 4095) has been packed and unpacked
C34_Witness ==
    /\ ret.op = "convert"
    /\ ret.ruleId = <<4095, 4095, 4095, 4095, 7, 0>>
    /\ ret.inputNumber = 4095
    /\ ret.categoryId = <<4095, 4095, 4095, 4095, 4095, 7>>

\* C35: whatever the rule id and the input number, the pair comes back from
\* the packed key as it went in
C35_KeysUniqueUnbounded ==
    ret.op = "convert" =>
        /\ ret.gotRuleId = ret.ruleId
        /\ ret.gotInputNumber = ret.inputNumber

\* C36: a getResponse that returns empty output and no match leaves the
\* tracked topic of its partner as it was before the call
C36_UnmatchedKeepsTopic ==
    Answered /\ ret.output = NoText /\ matches = <<>>
        => TopicOf(m_topics, ret.target) = ret.topicBefore

\* C37: clear leaves the rule set, the index and the topics empty and the
\* engine dirty; while the rule set stays empty, getResponse returns empty
\* output and no match and rules returns the empty list
C37_ClearResets ==
    [][calls' # calls =>
          /\ ret'.op = "clear" =>
                /\ m_rules' = <<>>
                /\ m_parsers' = <<>>
                /\ m_topics' = <<>>
                /\ m_dirty'
          /\ ret'.op = "getResponse" /\ m_rules' = <<>> =>
                /\ ret'.output = NoText
                /\ matches' = <<>>
          /\ ret'.op = "rules" /\ m_rules' = <<>> => ret'.rules = <<>> ]_vars

\* a call that follows a clear: the call before had matched, and of the
\* topics tracked then nothing is left
C37_Witness ==
    /\ Answered
    /\ m_rules = <<>>
    /\ ret.rebuilt
    /\ ret.matchesBefore # <<>>
    /\ ret.topicBefore = ""
    /\ DOMAIN m_topics = {ret.target}
    /\ ret.output = NoText
====
